---- MODULE Spec2Model ----
(***************************************************************************)
(* A model of detect_eucalyptus.py: the two statistics calculate_gini and  *)
(* calculate_pv50, and main() as a sequential pipeline: validation, raster *)
(* read, detection, projection of the boxes, area normalisation, coverage, *)
(* the metrics record and the two output files.                            *)
(*                                                                         *)
(* Numbers.  Areas, coordinates and the GSD are integers (square metres,   *)
(* CRS units, metres per pixel).  A float result is kept as an exact       *)
(* fraction [num, den] in lowest terms; den = 0 is a non-finite float:     *)
(* 0/0 is NaN and x/0 (x > 0) is +inf, which is what numpy's float64       *)
(* division gives (with a RuntimeWarning, not an exception).  Rounding of  *)
(* float64 is not modelled.  Band values keep their width: uint8           *)
(* addition wraps modulo 256.                                              *)
(***************************************************************************)
EXTENDS Integers, Sequences, FiniteSets, TLC

VARIABLES
    args,           \* the parsed command line (line 34)
    env,            \* the world outside: the raster file and what the detector returns
    pc,             \* position of main()
    exitStatus,     \* "running", or the process's exit status
    printed,        \* messages printed so far
    handle,         \* the raster file handle src: "unopened", "open", "closed"
    srcReads,       \* reads of src's properties: <<property, handle state at the read>>
    img,            \* the HWC pixel array (a sequence of pixels, each <<b1, b2, b3>>)
    transform,      \* the affine transform <<a, b, c, d, e, f>>
    results,        \* the detector's output: boxes, classes, confidences
    polygons,       \* line 77
    metadata,       \* line 78
    gdf,            \* the GeoDataFrame: [crs, rows]
    estimated_utm,  \* line 103
    total_area_ha,  \* line 113
    metrics,        \* line 122
    outDir,         \* whether this run has created (or ensured) the output directory
    files,          \* the output files this run has written
    failure,        \* the uncaught exception: [stage, cause], or NoFailure
    trace,          \* the stages started so far, in order
    areas,          \* the argument of a direct call of calculate_gini / calculate_pv50
    ret             \* what that call returned

vars == <<args, env, pc, exitStatus, printed, handle, srcReads, img, transform,
          results, polygons, metadata, gdf, estimated_utm, total_area_ha,
          metrics, outDir, files, failure, trace, areas, ret>>

(***************************************************************************)
(* Bounds of the model.                                                    *)
(***************************************************************************)
MaxLen == 5        \* longest area array given to the two statistics directly
MaxArea == 5       \* largest area in such an array
MaxBoxes == 2      \* most boxes the detector returns
MaxPixels == 2     \* most pixels of a raster

(***************************************************************************)
(* Program constants.                                                      *)
(***************************************************************************)
MinArea == 1               \* gdf.geometry.area > 1
SquareMetresPerHa == 10000 \* / 10000
BandModulus == 256         \* uint8 bands: + wraps modulo 2^8

(***************************************************************************)
(* Floats as exact fractions.                                              *)
(***************************************************************************)
Abs(x) == IF x < 0 THEN -x ELSE x

Sign(x) == IF x < 0 THEN -1 ELSE IF x > 0 THEN 1 ELSE 0

RECURSIVE GCD(_, _)
GCD(a, b) == IF b = 0 THEN a ELSE GCD(b, a % b)

NaN == [num |-> 0, den |-> 0]

\* n / d in float64: 0/0 is nan, x/0 is +-inf, else the quotient.
Div(n, d) ==
    IF d = 0 THEN [num |-> Sign(n), den |-> 0]
    ELSE LET g == GCD(Abs(n), Abs(d))
             s == Sign(d)
         IN  [num |-> (s * n) \div g, den |-> (s * d) \div g]

\* q * k for an integer k (nan and inf stay what they are for k > 0)
Times(q, k) == Div(q.num * k, q.den)

Zero == [num |-> 0, den |-> 1]

(***************************************************************************)
(* numpy helpers.                                                          *)
(***************************************************************************)
RECURSIVE np_sum(_)
np_sum(a) == IF a = <<>> THEN 0 ELSE a[1] + np_sum(Tail(a))

\* insert x into the ascending sequence s
RECURSIVE Insert(_, _)
Insert(x, s) ==
    IF s = <<>> THEN <<x>>
    ELSE IF x <= s[1] THEN <<x>> \o s
    ELSE <<s[1]>> \o Insert(x, Tail(s))

RECURSIVE np_sort(_)
np_sort(a) == IF a = <<>> THEN <<>> ELSE Insert(a[1], np_sort(Tail(a)))

arange(lo, hi) == [i \in 1..(hi - lo) |-> lo + i - 1]

\* a[:k]
Prefix(a, k) == SubSeq(a, 1, IF k < Len(a) THEN k ELSE Len(a))

(***************************************************************************)
(* calculate_gini, lines 11-16.                                            *)
(***************************************************************************)
\* calculate_gini without line 13
calculate_gini_unsorted(a) ==
    LET n == Len(a)
        index == arange(1, n + 1)
        weighted == [i \in 1..n |-> (2 * index[i] - n - 1) * a[i]]
    IN  Div(np_sum(weighted), n * np_sum(a))

calculate_gini(a) ==
    LET sorted_areas == np_sort(a)
        n == Len(a)
        index == arange(1, n + 1)
        weighted == [i \in 1..n |-> (2 * index[i] - n - 1) * sorted_areas[i]]
    IN  Div(np_sum(weighted), n * np_sum(sorted_areas))

(***************************************************************************)
(* calculate_pv50, lines 18-24.                                            *)
(***************************************************************************)
\* calculate_pv50 with the half rounded up
calculate_pv50_roundup(a) ==
    LET sorted_areas == np_sort(a)
        half_n == (Len(sorted_areas) + 1) \div 2
        sum_smallest_50 == np_sum(Prefix(sorted_areas, half_n))
        total_sum == np_sum(sorted_areas)
    IN  Times(Div(sum_smallest_50, total_sum), 100)

calculate_pv50(a) ==
    LET sorted_areas == np_sort(a)
        half_n == Len(sorted_areas) \div 2
        sum_smallest_50 == np_sum(Prefix(sorted_areas, half_n))
        total_sum == np_sum(sorted_areas)
    IN  Times(Div(sum_smallest_50, total_sum), 100)

(***************************************************************************)
(* Geometry: affine.Affine, shapely.geometry.box and the area of a ring.   *)
(***************************************************************************)
\* transform * (x, y)
Apply(t, x, y) == <<t[1] * x + t[2] * y + t[3], t[4] * x + t[5] * y + t[6]>>

\* shapely's box(minx, miny, maxx, maxy): the ring of the four corners, built
\* from the arguments as given (they are not reordered)
box(minx, miny, maxx, maxy) ==
    <<<<maxx, miny>>, <<maxx, maxy>>, <<minx, maxy>>, <<minx, miny>>>>

\* polygon.area: the unsigned shoelace area of the ring
PolygonArea(poly) ==
    LET n == Len(poly)
        nxt(i) == IF i = n THEN 1 ELSE i + 1
        cross == [i \in 1..n |-> poly[i][1] * poly[nxt(i)][2]
                                 - poly[nxt(i)][1] * poly[i][2]]
    IN  Abs(np_sum(cross)) \div 2

(***************************************************************************)
(* Coordinate reference systems.  The raster's CRS is absent, geographic   *)
(* (degrees) or projected (metres); the estimated UTM zone is metric.  A   *)
(* reprojection scales the coordinates by the ratio of the units.          *)
(***************************************************************************)
NoCrs == "None"
Geographic == "EPSG:4326"
Projected == "EPSG:31982"
Utm == "EPSG:32722"
MetresPerDegree == 2

UnitInMetres(crs) == IF crs = Geographic THEN MetresPerDegree ELSE 1

\* GeoSeries.to_crs from a CRS into the metric UTM zone
ToMetric(poly, crs) ==
    [i \in 1..Len(poly) |-> <<poly[i][1] * UnitInMetres(crs),
                              poly[i][2] * UnitInMetres(crs)>>]

\* GeoSeries.to_crs(4326) from the metric UTM zone: degrees, as fractions
ToDegrees(poly) ==
    [i \in 1..Len(poly) |-> <<Div(poly[i][1], MetresPerDegree),
                              Div(poly[i][2], MetresPerDegree)>>]

(***************************************************************************)
(* The world outside the program: the command line, the raster file and    *)
(* the detector's answer for it.                                           *)
(***************************************************************************)
ConfValues == {-1, 5, 11}      \* --conf in tenths: -0.1, 0.5, 1.1
GsdValues == {0, 2}            \* --gsd in metres per pixel

Args == [source_is_file : BOOLEAN, source_ext_ok : BOOLEAN,
         model_is_file : BOOLEAN, conf : ConfValues, gsd : GsdValues]

\* lines 37-53, in the order of the checks: the message of the first check
\* that fails, or "ok"
ValidationMessage(a) ==
    IF ~a.source_is_file THEN "Source path is not a file."
    ELSE IF ~a.source_ext_ok THEN "Source file is not a supported image format."
    ELSE IF ~a.model_is_file THEN "Model file does not exist."
    ELSE IF ~(0 <= a.conf /\ a.conf <= 10)
         THEN "Confidence threshold must be between 0 and 1."
    ELSE IF ~(a.gsd > 0) THEN "GSD must be a positive number."
    ELSE "ok"

BandValues == {0, 128}
Pixels == [1..3 -> BandValues]
Images(n) == UNION {[1..k -> Pixels] : k \in 1..n}

Identity == <<1, 0, 0, 0, 1, 0>>
NorthUp == <<1, 0, 10, 0, -1, 20>>
Flipped == <<-1, 0, 10, 0, -1, 20>>
Sheared == <<1, 1, 0, 0, 1, 0>>
Transforms == {Identity, NorthUp, Flipped, Sheared}

PixelCoords == {0, 1, 10}
\* the detector's boxes are xyxy with x1 < x2 and y1 < y2
PixelBoxes == {b \in [1..4 -> PixelCoords] : b[1] < b[3] /\ b[2] < b[4]}
DetectionAttrs == {[cls |-> 0, conf |-> 5], [cls |-> 1, conf |-> 9]}
Detections == [box : PixelBoxes, attrs : DetectionAttrs]
DetectionLists(n) == UNION {[1..k -> Detections] : k \in 0..n}

SmallBox == [box |-> <<0, 0, 1, 1>>, attrs |-> [cls |-> 0, conf |-> 5]]
BigBox == [box |-> <<0, 0, 10, 10>>, attrs |-> [cls |-> 1, conf |-> 9]]

\* Two families of worlds: every detector answer over one raster, and every
\* raster (pixels and CRS) with no box, one box the filter drops, or one it keeps.
DetectorWorlds ==
    [image : {<<<<128, 0, 0>>>>}, transform : Transforms, crs : {Projected},
     detections : DetectionLists(MaxBoxes)]

RasterWorlds ==
    [image : Images(MaxPixels), transform : {NorthUp},
     crs : {NoCrs, Geographic, Projected},
     detections : {<<>>, <<SmallBox>>, <<BigBox>>}]

Worlds == DetectorWorlds \cup RasterWorlds

DefaultWorld ==
    [image |-> <<<<128, 0, 0>>>>, transform |-> NorthUp, crs |-> Projected,
     detections |-> <<BigBox>>]

NoFailure == [stage |-> "none", cause |-> "none"]
Unset == [num |-> -1, den |-> 0]
NoMetrics == [total_detections |-> -1]
NoResults == [boxes |-> <<>>, classes |-> <<>>, confidences |-> <<>>]
NoGdf == [crs |-> NoCrs, rows |-> <<>>]
NoReturn == [fn |-> "none", value |-> Unset]

InitProgram ==
    /\ pc = "validate"
    /\ exitStatus = "running"
    /\ printed = {}
    /\ handle = "unopened"
    /\ srcReads = {}
    /\ img = <<>>
    /\ transform = Identity
    /\ results = NoResults
    /\ polygons = <<>>
    /\ metadata = <<>>
    /\ gdf = NoGdf
    /\ estimated_utm = NoCrs
    /\ total_area_ha = Unset
    /\ metrics = NoMetrics
    /\ outDir = FALSE
    /\ files = {}
    /\ failure = NoFailure
    /\ trace = <<>>

\* the state after parse_args (line 34)
Init ==
    /\ args \in Args
    /\ env \in (IF ValidationMessage(args) = "ok" THEN Worlds ELSE {DefaultWorld})
    /\ InitProgram
    /\ areas = <<>>
    /\ ret = NoReturn

(***************************************************************************)
(* main(), lines 26-141, one action per statement that matters.            *)
(***************************************************************************)
\* An exception nobody catches ends the process with status 1 and a
\* traceback; leaving the with block (line 59) closes the handle on the way.
Raise(stage, cause) ==
    /\ failure' = [stage |-> stage, cause |-> cause]
    /\ pc' = "exited"
    /\ exitStatus' = 1
    /\ printed' = printed \cup {"Traceback"}
    /\ handle' = IF handle = "open" THEN "closed" ELSE handle
    /\ trace' = Append(trace, stage)

Goto(stage, next) ==
    /\ pc' = next
    /\ trace' = Append(trace, stage)
    /\ failure' = failure
    /\ exitStatus' = exitStatus

\* lines 37-53: a failed check prints and returns from main(); the process
\* then ends normally (line 144), which is exit status 0
Validate ==
    /\ pc = "validate"
    /\ IF ValidationMessage(args) = "ok"
       THEN /\ Goto("validate", "load_model")
            /\ printed' = printed
       ELSE /\ pc' = "exited"
            /\ exitStatus' = 0
            /\ printed' = printed \cup {ValidationMessage(args)}
            /\ trace' = Append(trace, "validate")
            /\ failure' = failure
    /\ UNCHANGED <<args, env, handle, srcReads, img, transform, results, polygons,
                   metadata, gdf, estimated_utm, total_area_ha, metrics, outDir,
                   files, areas, ret>>

\* lines 56-57 with the output directory created up front
LoadModelAndCreateOutput ==
    /\ pc = "load_model"
    /\ Goto("load_model", "open_raster")
    /\ printed' = printed \cup {"Modelo carregado com sucesso."}
    /\ outDir' = TRUE
    /\ UNCHANGED <<args, env, handle, srcReads, img, transform, results, polygons,
                   metadata, gdf, estimated_utm, total_area_ha, metrics,
                   files, areas, ret>>

\* lines 56-57
LoadModel ==
    /\ pc = "load_model"
    /\ Goto("load_model", "open_raster")
    /\ printed' = printed \cup {"Modelo carregado com sucesso."}
    /\ UNCHANGED <<args, env, handle, srcReads, img, transform, results, polygons,
                   metadata, gdf, estimated_utm, total_area_ha, metrics, outDir,
                   files, areas, ret>>

\* line 59: rasterio.open
OpenRaster ==
    /\ pc = "open_raster"
    /\ Goto("open_raster", "read_bands")
    /\ handle' = "open"
    /\ UNCHANGED <<args, env, printed, srcReads, img, transform, results, polygons,
                   metadata, gdf, estimated_utm, total_area_ha, metrics, outDir,
                   files, areas, ret>>

\* lines 61-62: the three bands, moved to HWC
ReadBands ==
    /\ pc = "read_bands"
    /\ Goto("read_bands", "read_transform")
    /\ img' = env.image
    /\ srcReads' = srcReads \cup {<<"bands", handle>>}
    /\ UNCHANGED <<args, env, printed, handle, transform, results, polygons,
                   metadata, gdf, estimated_utm, total_area_ha, metrics, outDir,
                   files, areas, ret>>

\* line 65
ReadTransform ==
    /\ pc = "read_transform"
    /\ Goto("read_transform", "close_raster")
    /\ transform' = env.transform
    /\ srcReads' = srcReads \cup {<<"transform", handle>>}
    /\ UNCHANGED <<args, env, printed, handle, img, results, polygons,
                   metadata, gdf, estimated_utm, total_area_ha, metrics, outDir,
                   files, areas, ret>>

\* the end of the with block, and line 66
CloseRaster ==
    /\ pc = "close_raster"
    /\ Goto("close_raster", "predict")
    /\ handle' = "closed"
    /\ printed' = printed \cup {"Imagem carregada com sucesso."}
    /\ UNCHANGED <<args, env, srcReads, img, transform, results, polygons,
                   metadata, gdf, estimated_utm, total_area_ha, metrics, outDir,
                   files, areas, ret>>

\* lines 69-74
Predict ==
    /\ pc = "predict"
    /\ Goto("predict", "project")
    /\ LET d == env.detections
       IN  results' = [boxes |-> [i \in 1..Len(d) |-> d[i].box],
                       classes |-> [i \in 1..Len(d) |-> d[i].attrs.cls],
                       confidences |-> [i \in 1..Len(d) |-> d[i].attrs.conf]]
    /\ printed' = printed \cup {"Deteccoes realizadas"}
    /\ UNCHANGED <<args, env, handle, srcReads, img, transform, polygons,
                   metadata, gdf, estimated_utm, total_area_ha, metrics, outDir,
                   files, areas, ret>>

\* lines 81-89 with the first corner used twice
ProjectBoxOneCorner(t, b) ==
    LET p1 == Apply(t, b[1], b[2])
    IN  box(p1[1], p1[2], p1[1], p1[2])

\* lines 81-89: the body of the loop for one box b = <<x1, y1, x2, y2>>
ProjectBox(t, b) ==
    LET p1 == Apply(t, b[1], b[2])     \* lon_min, lat_max
        p2 == Apply(t, b[3], b[4])     \* lon_max, lat_min
    IN  box(p1[1], p2[2], p2[1], p1[2])

\* lines 77-95: the loop over the boxes
Project ==
    /\ pc = "project"
    /\ Goto("project", "make_gdf")
    /\ polygons' = [i \in 1..Len(results.boxes) |->
                        ProjectBox(transform, results.boxes[i])]
    /\ metadata' = [i \in 1..Len(results.boxes) |->
                        [class |-> results.classes[i],
                         confidence |-> results.confidences[i]]]
    /\ UNCHANGED <<args, env, printed, handle, srcReads, img, transform, results,
                   gdf, estimated_utm, total_area_ha, metrics, outDir,
                   files, areas, ret>>

\* lines 98-100: src.crs is read here, from the handle the with block has
\* closed (rasterio keeps the CRS it read at open)
MakeGdf ==
    /\ pc = "make_gdf"
    /\ Goto("make_gdf", "estimate_utm_crs")
    /\ srcReads' = srcReads \cup {<<"crs", handle>>}
    /\ gdf' = [crs |-> env.crs,
               rows |-> [i \in 1..Len(polygons) |->
                            [index |-> i - 1, geometry |-> polygons[i],
                             class |-> metadata[i].class,
                             confidence |-> metadata[i].confidence]]]
    /\ printed' = printed \cup {"Vetorizacao concluida"}
    /\ UNCHANGED <<args, env, handle, img, transform, results, polygons,
                   metadata, estimated_utm, total_area_ha, metrics, outDir,
                   files, areas, ret>>

\* line 103: GeoDataFrame.estimate_utm_crs raises RuntimeError when the frame
\* has no CRS, and when it has no geometry (its bounds are nan)
EstimateUtm ==
    /\ pc = "estimate_utm_crs"
    /\ IF gdf.crs = NoCrs
       THEN /\ Raise("estimate_utm_crs", "crs must be set to estimate UTM CRS")
            /\ estimated_utm' = estimated_utm
       ELSE IF gdf.rows = <<>>
       THEN /\ Raise("estimate_utm_crs", "Unable to determine UTM CRS")
            /\ estimated_utm' = estimated_utm
       ELSE /\ Goto("estimate_utm_crs", "to_utm")
            /\ estimated_utm' = Utm
            /\ printed' = printed
            /\ handle' = handle
    /\ UNCHANGED <<args, env, srcReads, img, transform, results, polygons,
                   metadata, gdf, total_area_ha, metrics, outDir,
                   files, areas, ret>>

\* line 104
ToUtm ==
    /\ pc = "to_utm"
    /\ Goto("to_utm", "compute_area")
    /\ gdf' = [crs |-> estimated_utm,
               rows |-> [i \in 1..Len(gdf.rows) |->
                            [gdf.rows[i] EXCEPT
                                !.geometry = ToMetric(@, gdf.crs)]]]
    /\ UNCHANGED <<args, env, printed, handle, srcReads, img, transform, results,
                   polygons, metadata, estimated_utm, total_area_ha, metrics,
                   outDir, files, areas, ret>>

\* line 107
ComputeArea ==
    /\ pc = "compute_area"
    /\ Goto("compute_area", "filter_area")
    /\ gdf' = [gdf EXCEPT !.rows =
                 [i \in 1..Len(gdf.rows) |->
                    [index |-> gdf.rows[i].index,
                     geometry |-> gdf.rows[i].geometry,
                     class |-> gdf.rows[i].class,
                     confidence |-> gdf.rows[i].confidence,
                     area |-> PolygonArea(gdf.rows[i].geometry)]]]
    /\ UNCHANGED <<args, env, printed, handle, srcReads, img, transform, results,
                   polygons, metadata, estimated_utm, total_area_ha, metrics,
                   outDir, files, areas, ret>>

\* line 110 with >= for >
AreaFilterKeepsBoundary(a) == a >= MinArea

\* line 110: the mask gdf.geometry.area > 1
AreaFilterKeeps(a) == a > MinArea

\* line 110: boolean indexing keeps the rows of the mask, with their index
\* and their other columns
FilterArea ==
    /\ pc = "filter_area"
    /\ Goto("filter_area", "coverage")
    /\ gdf' = [gdf EXCEPT !.rows =
                 SelectSeq(@, LAMBDA r : AreaFilterKeeps(PolygonArea(r.geometry)))]
    /\ UNCHANGED <<args, env, printed, handle, srcReads, img, transform, results,
                   polygons, metadata, estimated_utm, total_area_ha, metrics,
                   outDir, files, areas, ret>>

\* + on uint8 arrays wraps
uint8_add(a, b) == (a + b) % BandModulus

\* line 113: np.sum(np.where((img[:,:,0] + img[:,:,1] + img[:,:,2]) > 0, 1, 0))
CountValid(image) ==
    Cardinality({i \in 1..Len(image) :
                    uint8_add(uint8_add(image[i][1], image[i][2]), image[i][3]) > 0})

\* line 113
CoverageHa(image, gsd) == Div(CountValid(image) * (gsd * gsd), SquareMetresPerHa)

Coverage ==
    /\ pc = "coverage"
    /\ Goto("coverage", "metrics")
    /\ total_area_ha' = CoverageHa(img, args.gsd)
    /\ UNCHANGED <<args, env, printed, handle, srcReads, img, transform, results,
                   polygons, metadata, gdf, estimated_utm, metrics,
                   outDir, files, areas, ret>>

\* Series.std(): the sample standard deviation (n - 1 in the denominator), kept
\* as the variance it is the square root of
SampleVariance(a) ==
    LET n == Len(a)
        squares == [i \in 1..n |-> a[i] * a[i]]
    IN  Div(n * np_sum(squares) - np_sum(a) * np_sum(a), n * (n - 1))

\* line 117
DetectionsPerHa(total_detections, area_ha) ==
    IF area_ha.num > 0 /\ area_ha.den > 0
    THEN Div(total_detections * area_ha.den, area_ha.num)
    ELSE Zero

\* lines 116-129
MetricsRecord(rows, area_ha) ==
    LET column == [i \in 1..Len(rows) |-> rows[i].area]
    IN  [total_detections |-> Len(rows),
         total_area_ha |-> area_ha,
         detections_per_ha |-> DetectionsPerHa(Len(rows), area_ha),
         desvio_padrao |-> [sqrt_of |-> IF Len(rows) > 1 THEN SampleVariance(column)
                                        ELSE Zero],
         gini |-> calculate_gini(column),
         pv50 |-> calculate_pv50(column)]

Metrics ==
    /\ pc = "metrics"
    /\ Goto("metrics", "mkdir")
    /\ metrics' = MetricsRecord(gdf.rows, total_area_ha)
    /\ printed' = printed \cup {"Metricas calculadas."}
    /\ UNCHANGED <<args, env, handle, srcReads, img, transform, results,
                   polygons, metadata, gdf, estimated_utm, total_area_ha,
                   outDir, files, areas, ret>>

\* lines 134-135
MkDir ==
    /\ pc = "mkdir"
    /\ Goto("mkdir", "to_wgs84")
    /\ outDir' = TRUE
    /\ UNCHANGED <<args, env, printed, handle, srcReads, img, transform, results,
                   polygons, metadata, gdf, estimated_utm, total_area_ha, metrics,
                   files, areas, ret>>

\* line 136
ToWgs84 ==
    /\ pc = "to_wgs84"
    /\ Goto("to_wgs84", "write_geojson")
    /\ gdf' = [crs |-> Geographic,
               rows |-> [i \in 1..Len(gdf.rows) |->
                            [gdf.rows[i] EXCEPT !.geometry = ToDegrees(@)]]]
    /\ UNCHANGED <<args, env, printed, handle, srcReads, img, transform, results,
                   polygons, metadata, estimated_utm, total_area_ha, metrics,
                   outDir, files, areas, ret>>

\* line 137
WriteGeojson ==
    /\ pc = "write_geojson"
    /\ Goto("write_geojson", "write_metrics")
    /\ files' = files \cup {"detections.geojson"}
    /\ UNCHANGED <<args, env, printed, handle, srcReads, img, transform, results,
                   polygons, metadata, gdf, estimated_utm, total_area_ha, metrics,
                   outDir, areas, ret>>

\* lines 138-139
WriteMetrics ==
    /\ pc = "write_metrics"
    /\ Goto("write_metrics", "finish")
    /\ files' = files \cup {"metrics.json"}
    /\ UNCHANGED <<args, env, printed, handle, srcReads, img, transform, results,
                   polygons, metadata, gdf, estimated_utm, total_area_ha, metrics,
                   outDir, areas, ret>>

\* lines 141 and 144: main() returns and the process ends normally
Finish ==
    /\ pc = "finish"
    /\ pc' = "exited"
    /\ exitStatus' = 0
    /\ trace' = Append(trace, "finish")
    /\ printed' = printed \cup {"Processo concluido!"}
    /\ UNCHANGED <<args, env, handle, srcReads, img, transform, results,
                   polygons, metadata, gdf, estimated_utm, total_area_ha, metrics,
                   outDir, files, failure, areas, ret>>

\* The calls into the collaborators that can raise whatever the data: loading
\* the model (56), opening and reading the raster (59, 61), the detector (69),
\* creating the directory (135) and writing the two files (137-139).  A write
\* that fails may leave its file behind.
Fallible == {"load_model", "open_raster", "read_bands", "predict", "mkdir",
             "write_geojson", "write_metrics"}

FileOf(stage) ==
    IF stage = "write_geojson" THEN {"detections.geojson"}
    ELSE IF stage = "write_metrics" THEN {"metrics.json"}
    ELSE {}

CollaboratorFails ==
    /\ pc \in Fallible
    /\ Raise(pc, "collaborator")
    /\ \E left \in SUBSET FileOf(pc) : files' = files \cup left
    /\ UNCHANGED <<args, env, srcReads, img, transform, results,
                   polygons, metadata, gdf, estimated_utm, total_area_ha, metrics,
                   outDir, areas, ret>>

Next ==
    \/ Validate
    \/ LoadModel
    \/ OpenRaster
    \/ ReadBands
    \/ ReadTransform
    \/ CloseRaster
    \/ Predict
    \/ Project
    \/ MakeGdf
    \/ EstimateUtm
    \/ ToUtm
    \/ ComputeArea
    \/ FilterArea
    \/ Coverage
    \/ Metrics
    \/ MkDir
    \/ ToWgs84
    \/ WriteGeojson
    \/ WriteMetrics
    \/ Finish
    \/ CollaboratorFails

Spec == Init /\ [][Next]_vars

(***************************************************************************)
(* The two statistics called directly, on any array of non-negative areas. *)
(***************************************************************************)
AreaArrays == UNION {[1..k -> 0..MaxArea] : k \in 0..MaxLen}

InitMetrics ==
    /\ args = [source_is_file |-> TRUE, source_ext_ok |-> TRUE,
               model_is_file |-> TRUE, conf |-> 5, gsd |-> 2]
    /\ env = DefaultWorld
    /\ InitProgram
    /\ areas \in AreaArrays
    /\ ret = NoReturn

CallGini ==
    /\ ret.fn # "calculate_gini"
    /\ ret' = [fn |-> "calculate_gini", value |-> calculate_gini(areas)]
    /\ UNCHANGED <<args, env, pc, exitStatus, printed, handle, srcReads, img,
                   transform, results, polygons, metadata, gdf, estimated_utm,
                   total_area_ha, metrics, outDir, files, failure, trace, areas>>

CallPv50 ==
    /\ ret.fn # "calculate_pv50"
    /\ ret' = [fn |-> "calculate_pv50", value |-> calculate_pv50(areas)]
    /\ UNCHANGED <<args, env, pc, exitStatus, printed, handle, srcReads, img,
                   transform, results, polygons, metadata, gdf, estimated_utm,
                   total_area_ha, metrics, outDir, files, failure, trace, areas>>

NextMetrics == CallGini \/ CallPv50

SpecMetrics == InitMetrics /\ [][NextMetrics]_vars

(***************************************************************************)
(* What the claims are stated with.                                        *)
(***************************************************************************)
\* the stage has been started / has run to its end
Started(stage) == \E i \in 1..Len(trace) : trace[i] = stage
Completed(stage) == Started(stage) /\ failure.stage # stage

SetMin(S) == CHOOSE x \in S : \A y \in S : x <= y
SetMax(S) == CHOOSE x \in S : \A y \in S : x >= y

\* the extent of a polygon: (minx, miny, maxx, maxy) over its vertices
Bounds(poly) ==
    LET xs == {poly[i][1] : i \in 1..Len(poly)}
        ys == {poly[i][2] : i \in 1..Len(poly)}
    IN  <<SetMin(xs), SetMin(ys), SetMax(xs), SetMax(ys)>>

RECURSIVE Sigma(_, _)
Sigma(f, n) == IF n = 0 THEN 0 ELSE f[n] + Sigma(f, n - 1)

\* a_i of the areas sorted ascending: the least value with at least i of the
\* areas at or below it
Ranked(a, i) ==
    SetMin({a[j] : j \in {k \in 1..Len(a) :
                Cardinality({m \in 1..Len(a) : a[m] <= a[k]}) >= i}})

GiniFormula(a) ==
    LET n == Len(a)
    IN  Div(Sigma([i \in 1..n |-> (2 * i - n - 1) * Ranked(a, i)], n),
            n * Sigma(a, n))

Pv50Formula(a) ==
    LET n == Len(a)
        h == n \div 2
    IN  Div(100 * Sigma([i \in 1..h |-> Ranked(a, i)], h), Sigma(a, n))

\* 0 <= q <= k for a finite q
Within(q, k) == q.den > 0 /\ 0 <= q.num /\ q.num <= k * q.den

AllEqual(a) == \A i, j \in 1..Len(a) : a[i] = a[j]

GiniClaim(a, g) ==
    /\ g = GiniFormula(a)
    /\ Within(g, 1)
    /\ AllEqual(a) => g = Zero

Pv50Claim(a, v) ==
    /\ v = Pv50Formula(a)
    /\ Within(v, 100)
    /\ a = <<1, 2, 3, 4, 5>> => v = Div(20, 1)
    /\ (AllEqual(a) /\ Len(a) % 2 = 0) => v = Div(50, 1)

NormalisedArea(i) ==
    PolygonArea(ToMetric(ProjectBox(env.transform, results.boxes[i]), env.crs))

Survivors == {i \in 1..Len(results.boxes) : NormalisedArea(i) > 1}

\* a pixel is valid when the arithmetic sum of its bands is positive
ValidPixels == {i \in 1..Len(img) : img[i][1] + img[i][2] + img[i][3] > 0}

DegenerateData ==
    /\ Completed("predict")
    /\ Survivors = {} \/ ValidPixels = {}

\* C3: degenerate data never aborts the run: with zero surviving detections
\* and/or zero valid pixels the run is not ended by the data (only a failing
\* collaborator or a raster without CRS may end it), and the record has
\* total_detections 0 with gini and pv50 NaN, resp. total_area_ha 0, and
\* detections_per_ha exactly 0.
C3_DegenerateDataNeverAborts ==
    /\ (DegenerateData /\ failure.stage # "none") =>
            \/ failure.cause = "collaborator"
            \/ env.crs = NoCrs
    /\ (DegenerateData /\ Completed("metrics") /\ Survivors = {}) =>
            /\ metrics.total_detections = 0
            /\ metrics.detections_per_ha = Zero
            /\ metrics.gini = NaN
            /\ metrics.pv50 = NaN
    /\ (DegenerateData /\ Completed("metrics") /\ CountValid(img) = 0) =>
            /\ metrics.total_area_ha = Zero
            /\ metrics.detections_per_ha = Zero

\* C4: when the detector returns nothing the normaliser returns an empty
\* result: no CRS estimation is attempted and the run does not fail there.
C4_EmptyInputShortCircuits ==
    (Completed("make_gdf") /\ polygons = <<>>) =>
        /\ ~Started("estimate_utm_crs")
        /\ failure.stage \notin {"estimate_utm_crs", "to_utm", "compute_area",
                                 "filter_area"}

\* C5: after the filter the rows are exactly the detections whose computed
\* area is strictly greater than 1, in order, each with its own class,
\* confidence and area, and total_detections counts the survivors.
C5_AreaFilter ==
    /\ Completed("filter_area") =>
          /\ {r.index + 1 : r \in {gdf.rows[k] : k \in 1..Len(gdf.rows)}} = Survivors
          /\ Len(gdf.rows) = Cardinality(Survivors)
          /\ \A k \in 1..Len(gdf.rows) :
                LET r == gdf.rows[k]
                IN  /\ r.area = NormalisedArea(r.index + 1)
                    /\ r.area > 1
                    /\ r.class = results.classes[r.index + 1]
                    /\ r.confidence = results.confidences[r.index + 1]
                    /\ k > 1 => gdf.rows[k - 1].index < r.index
    /\ Completed("metrics") => metrics.total_detections = Cardinality(Survivors)

C5_Witness ==
    /\ Completed("metrics")
    /\ Len(results.boxes) = 2
    /\ NormalisedArea(1) = 1
    /\ metrics.total_detections = 1
    /\ gdf.rows[1].class = 1

\* C6: a pixel counts as valid exactly when the arithmetic sum of its three
\* band values is greater than zero, and total_area_ha is the count times
\* GSD^2 over 10000.
C6_CoverageCountsNonZeroPixels ==
    Completed("coverage") =>
        total_area_ha = Div(Cardinality(ValidPixels) * args.gsd * args.gsd, 10000)

Min2(x, y) == IF x <= y THEN x ELSE y
Max2(x, y) == IF x >= y THEN x ELSE y

\* C7: the projector yields one rectangle per box, in order, whose extent runs
\* from the per-axis minimum to the per-axis maximum of the two transformed
\* corners; identity and box (0,0,10,10) give (0,0)-(10,10).
C7_Projector ==
    Completed("project") =>
        /\ Len(polygons) = Len(results.boxes)
        /\ \A i \in 1..Len(polygons) :
              LET b == results.boxes[i]
                  p == Apply(transform, b[1], b[2])
                  q == Apply(transform, b[3], b[4])
              IN  /\ Bounds(polygons[i]) = <<Min2(p[1], q[1]), Min2(p[2], q[2]),
                                            Max2(p[1], q[1]), Max2(p[2], q[2])>>
                  /\ (transform = Identity /\ b = <<0, 0, 10, 10>>) =>
                        Bounds(polygons[i]) = <<0, 0, 10, 10>>

C7_Witness ==
    /\ Completed("project")
    /\ transform = Flipped
    /\ Len(polygons) = 2
    /\ results.boxes[2] = <<0, 0, 10, 10>>
    /\ Bounds(polygons[2]) = <<0, 10, 10, 20>>

\* C8: a validation failure prints a message, ends with a non-success exit
\* status and leaves no output directory or file.
C8_ValidationFailureExitsNonZero ==
    (pc = "exited" /\ ValidationMessage(args) # "ok") =>
        /\ ValidationMessage(args) \in printed
        /\ exitStatus # 0
        /\ ~outDir
        /\ files = {}

\* C9: bands, transform and CRS are read from the raster while its handle is
\* open, the handle is released before the detector is invoked, and nothing
\* is read from the raster after the release.
C9_RasterReadWhileOpen ==
    /\ \A r \in srcReads : r[2] = "open"
    /\ Started("predict") =>
          /\ handle = "closed"
          /\ {"bands", "transform", "crs"} \subseteq {r[1] : r \in srcReads}

\* C10: the output directory and the two files exist only after raster read,
\* detection, projection, normalisation, coverage and metrics have all
\* completed; a failure of the raster read, the detector or the CRS
\* estimation leaves no output; no stage runs twice.
C10_NoPartialOutputs ==
    /\ (outDir \/ files # {}) =>
          \A s \in {"read_bands", "read_transform", "predict", "project",
                    "estimate_utm_crs", "to_utm", "compute_area", "filter_area",
                    "coverage", "metrics"} : Completed(s)
    /\ failure.stage \in {"open_raster", "read_bands", "predict",
                          "estimate_utm_crs"} => (~outDir /\ files = {})
    /\ \A i, j \in 1..Len(trace) : trace[i] = trace[j] => i = j

C10_Witness ==
    /\ pc = "exited"
    /\ failure.stage = "estimate_utm_crs"
    /\ results.boxes # <<>>
    /\ ~outDir
    /\ files = {}

====
